---- MODULE Spec2Model ----
(***************************************************************************)
(* Model of the halo2 verifier reconstruction in                          *)
(* src/src/verify/halo2/verify.rs: the gate expression evaluator          *)
(* (Evaluable::ctx_evaluate), the transcript replay of                     *)
(* VerifierParams::from_transcript, the multi-open batching               *)
(* (batch_multi_open_proofs) and the rotation helpers of IVerifierParams. *)
(* Field elements are residues modulo Modulus; curve points are modelled  *)
(* by their discrete logarithm, so group addition and scalar              *)
(* multiplication are again arithmetic modulo Modulus.                    *)
(***************************************************************************)
EXTENDS Integers, Naturals, Sequences, FiniteSets, TLC

VARIABLES
    \* Evaluable::ctx_evaluate
    eExpr, eFixed, eAdvice, eInstance, ePc, eRes,
    \* VerifierParams::from_transcript
    cfg, tpc, tlog, consumed, outcome, panicAt,
    \* SchemaGenerator::batch_multi_open_proofs
    bQueries, bU, bPc, bWx, bWg,
    \* IVerifierParams::rotate_omega / x_next / x_last / queries
    rX, rA, rPc, rRes, qPc, xNext, xLast, qhPc, qhXn, qhList, qhExprs, qhLagrange,
    \* assembled VerifierParams of from_transcript
    vstate,
    \* VerifierParams::from_expression
    fExpr, fPc, fRes,
    \* permutation Evaluated construction in from_transcript
    pCols, pDeg, pAdv, pFix, pInst, pPc, pRes

vars == << eExpr, eFixed, eAdvice, eInstance, ePc, eRes,
           cfg, tpc, tlog, consumed, outcome, panicAt,
           bQueries, bU, bPc, bWx, bWg,
           rX, rA, rPc, rRes, qPc, xNext, xLast, qhPc, qhXn, qhList, qhExprs, qhLagrange,
           vstate, fExpr, fPc, fRes,
           pCols, pDeg, pAdv, pFix, pInst, pPc, pRes >>

evalVars == << eExpr, eFixed, eAdvice, eInstance, ePc, eRes >>
transcriptVars == << cfg, tpc, tlog, consumed, outcome, panicAt, vstate >>
batchVars == << bQueries, bU, bPc, bWx, bWg >>
rotVars == << rX, rA, rPc, rRes, qPc, xNext, xLast, qhPc, qhXn, qhList, qhExprs, qhLagrange >>
convVars == << fExpr, fPc, fRes >>
permVars == << pCols, pDeg, pAdv, pFix, pInst, pPc, pRes >>

(***************************************************************************)
(* Scalar field (native FieldCode context).                               *)
(***************************************************************************)
Modulus == 41
Field == 0 .. (Modulus - 1)

FAdd(a, b) == (a + b) % Modulus
FSub(a, b) == (a - b) % Modulus
FMul(a, b) == (a * b) % Modulus
FZero == 0
FInv(a) == IF \E y \in Field : (a * y) % Modulus = 1
           THEN CHOOSE y \in Field : (a * y) % Modulus = 1
           ELSE 0
FDiv(a, b) == FMul(a, FInv(b))
RECURSIVE FPow(_, _)
FPow(a, e) == IF e = 0 THEN 1 ELSE FMul(a, FPow(a, e - 1))

(* FieldExt constants of the scalar field: the multiplicative generator, *)
(* the two-adicity S of Modulus - 1, DELTA = GENERATOR^(2^S) and          *)
(* ROOT_OF_UNITY = GENERATOR^t with t the odd part of Modulus - 1         *)
MultGenerator == 6
TwoAdicity == 3
Delta == FPow(MultGenerator, 2 ^ TwoAdicity)
RootOfUnity == FPow(MultGenerator, (Modulus - 1) \div (2 ^ TwoAdicity))

(* sgate.from_constant: lifts a constant into a context handle           *)
from_constant(c) == << "Lifted", c >>

(***************************************************************************)
(* Gate expressions (halo2_proofs::plonk::Expression).                    *)
(*   <<"Constant", c>>, <<"Selector">>, <<"Fixed", q>>, <<"Advice", q>>, *)
(*   <<"Instance", q>>, <<"Negated", a>>, <<"Sum", a, b>>,                *)
(*   <<"Product", a, b>>, <<"Scaled", a, f>>                              *)
(***************************************************************************)
MaxDepth == 1
MaxVal == 2
NumQueries == 1

Vals == 0 .. MaxVal
QueryIdx == 0 .. (NumQueries - 1)

Leaves ==
    { <<"Constant", c>> : c \in Vals } \cup { <<"Selector">> }
    \cup { <<"Fixed", q>> : q \in QueryIdx }
    \cup { <<"Advice", q>> : q \in QueryIdx }
    \cup { <<"Instance", q>> : q \in QueryIdx }

RECURSIVE Exprs(_)
Exprs(d) ==
    IF d = 0 THEN Leaves
    ELSE LET S == Exprs(d - 1) IN
         S \cup { <<"Negated", a>> : a \in S }
           \cup { <<"Sum", a, b>> : a \in S, b \in S }
           \cup { <<"Product", a, b>> : a \in S, b \in S }
           \cup { <<"Scaled", a, f>> : a \in S, f \in Vals }

RECURSIVE HasSelector(_)
HasSelector(e) ==
    CASE e[1] = "Selector" -> TRUE
      [] e[1] \in {"Negated", "Scaled"} -> HasSelector(e[2])
      [] e[1] \in {"Sum", "Product"} -> HasSelector(e[2]) \/ HasSelector(e[3])
      [] OTHER -> FALSE

(* Result of ctx_evaluate: a value together with the sequence of calls   *)
(* it made (column lookups through the fixed/advice/instance closures and *)
(* capability calls on the context), or the panic! of the Selector arm.   *)
Ok(v, calls) == [panic |-> FALSE, v |-> v, calls |-> calls]
Panic == [panic |-> TRUE, v |-> 0, calls |-> << >>]

(* Mutant of ctx_evaluate: the Negated arm returns the operand unchanged. *)
RECURSIVE ctx_evaluate_no_negate(_, _, _, _)
ctx_evaluate_no_negate(e, fixed, advice, instance) ==
    CASE e[1] = "Constant" -> Ok(e[2], << >>)
      [] e[1] = "Selector" -> Panic
      [] e[1] = "Fixed" -> Ok(fixed[e[2] + 1], << << "fixed", e[2] >> >>)
      [] e[1] = "Advice" -> Ok(advice[e[2] + 1], << << "advice", e[2] >> >>)
      [] e[1] = "Instance" -> Ok(instance[e[2] + 1], << << "instance", e[2] >> >>)
      [] e[1] = "Negated" ->
            LET a == ctx_evaluate_no_negate(e[2], fixed, advice, instance)
            IN IF a.panic THEN Panic
               ELSE Ok(FSub(a.v, FZero),
                       a.calls \o << << "zero" >>, << "sub", a.v, FZero >> >>)
      [] e[1] = "Sum" ->
            LET a == ctx_evaluate_no_negate(e[2], fixed, advice, instance)
            IN IF a.panic THEN Panic
               ELSE LET b == ctx_evaluate_no_negate(e[3], fixed, advice, instance)
                    IN IF b.panic THEN Panic
                       ELSE Ok(FAdd(a.v, b.v), a.calls \o b.calls \o << << "add", a.v, b.v >> >>)
      [] e[1] = "Product" ->
            LET a == ctx_evaluate_no_negate(e[2], fixed, advice, instance)
            IN IF a.panic THEN Panic
               ELSE LET b == ctx_evaluate_no_negate(e[3], fixed, advice, instance)
                    IN IF b.panic THEN Panic
                       ELSE Ok(FMul(a.v, b.v), a.calls \o b.calls \o << << "mul", a.v, b.v >> >>)
      [] e[1] = "Scaled" ->
            LET a == ctx_evaluate_no_negate(e[2], fixed, advice, instance)
            IN IF a.panic THEN Panic
               ELSE Ok(FMul(e[3], a.v), a.calls \o << << "mul", e[3], a.v >> >>)

(* Mutant of ctx_evaluate: Sum and Product evaluate the right operand     *)
(* before the left one.                                                   *)
RECURSIVE ctx_evaluate_right_first(_, _, _, _)
ctx_evaluate_right_first(e, fixed, advice, instance) ==
    CASE e[1] = "Constant" -> Ok(e[2], << >>)
      [] e[1] = "Selector" -> Panic
      [] e[1] = "Fixed" -> Ok(fixed[e[2] + 1], << << "fixed", e[2] >> >>)
      [] e[1] = "Advice" -> Ok(advice[e[2] + 1], << << "advice", e[2] >> >>)
      [] e[1] = "Instance" -> Ok(instance[e[2] + 1], << << "instance", e[2] >> >>)
      [] e[1] = "Negated" ->
            LET a == ctx_evaluate_right_first(e[2], fixed, advice, instance)
            IN IF a.panic THEN Panic
               ELSE Ok(FSub(FZero, a.v),
                       a.calls \o << << "zero" >>, << "sub", FZero, a.v >> >>)
      [] e[1] = "Sum" ->
            LET b == ctx_evaluate_right_first(e[3], fixed, advice, instance)
            IN IF b.panic THEN Panic
               ELSE LET a == ctx_evaluate_right_first(e[2], fixed, advice, instance)
                    IN IF a.panic THEN Panic
                       ELSE Ok(FAdd(a.v, b.v), b.calls \o a.calls \o << << "add", a.v, b.v >> >>)
      [] e[1] = "Product" ->
            LET b == ctx_evaluate_right_first(e[3], fixed, advice, instance)
            IN IF b.panic THEN Panic
               ELSE LET a == ctx_evaluate_right_first(e[2], fixed, advice, instance)
                    IN IF a.panic THEN Panic
                       ELSE Ok(FMul(a.v, b.v), b.calls \o a.calls \o << << "mul", a.v, b.v >> >>)
      [] e[1] = "Scaled" ->
            LET a == ctx_evaluate_right_first(e[2], fixed, advice, instance)
            IN IF a.panic THEN Panic
               ELSE Ok(FMul(e[3], a.v), a.calls \o << << "mul", e[3], a.v >> >>)

(* Evaluable::ctx_evaluate: operands are evaluated left to right; the     *)
(* Selector arm panics, which aborts the whole evaluation.  Negated       *)
(* takes sgate.zero(ctx) and computes zero - a; Scaled computes f * a.    *)
RECURSIVE ctx_evaluate(_, _, _, _)
ctx_evaluate(e, fixed, advice, instance) ==
    CASE e[1] = "Constant" -> Ok(e[2], << >>)
      [] e[1] = "Selector" -> Panic
      [] e[1] = "Fixed" -> Ok(fixed[e[2] + 1], << << "fixed", e[2] >> >>)
      [] e[1] = "Advice" -> Ok(advice[e[2] + 1], << << "advice", e[2] >> >>)
      [] e[1] = "Instance" -> Ok(instance[e[2] + 1], << << "instance", e[2] >> >>)
      [] e[1] = "Negated" ->
            LET a == ctx_evaluate(e[2], fixed, advice, instance)
            IN IF a.panic THEN Panic
               ELSE Ok(FSub(FZero, a.v),
                       a.calls \o << << "zero" >>, << "sub", FZero, a.v >> >>)
      [] e[1] = "Sum" ->
            LET a == ctx_evaluate(e[2], fixed, advice, instance)
            IN IF a.panic THEN Panic
               ELSE LET b == ctx_evaluate(e[3], fixed, advice, instance)
                    IN IF b.panic THEN Panic
                       ELSE Ok(FAdd(a.v, b.v), a.calls \o b.calls \o << << "add", a.v, b.v >> >>)
      [] e[1] = "Product" ->
            LET a == ctx_evaluate(e[2], fixed, advice, instance)
            IN IF a.panic THEN Panic
               ELSE LET b == ctx_evaluate(e[3], fixed, advice, instance)
                    IN IF b.panic THEN Panic
                       ELSE Ok(FMul(a.v, b.v), a.calls \o b.calls \o << << "mul", a.v, b.v >> >>)
      [] e[1] = "Scaled" ->
            LET a == ctx_evaluate(e[2], fixed, advice, instance)
            IN IF a.panic THEN Panic
               ELSE Ok(FMul(e[3], a.v), a.calls \o << << "mul", e[3], a.v >> >>)

EvalInit ==
    /\ eExpr \in Exprs(MaxDepth)
    /\ eFixed \in [1 .. NumQueries -> Vals]
    /\ eAdvice \in [1 .. NumQueries -> Vals]
    /\ eInstance \in [1 .. NumQueries -> Vals]
    /\ ePc = "idle"
    /\ eRes = Ok(0, << >>)

(* One call of ctx_evaluate in the native context (the loop body of       *)
(* IVerifierParams::queries, lines 224-230).                              *)
CtxEvaluate ==
    /\ ePc = "idle"
    /\ LET r == ctx_evaluate(eExpr, eFixed, eAdvice, eInstance)
       IN /\ eRes' = r
          /\ ePc' = IF r.panic THEN "panic" ELSE "done"
    /\ UNCHANGED << eExpr, eFixed, eAdvice, eInstance >>
    /\ UNCHANGED << transcriptVars, batchVars, rotVars, convVars, permVars >>

(***************************************************************************)
(* VerifierParams::from_transcript.                                       *)
(* The verifying key layout is fixed by the definitions below; a proof   *)
(* configuration cfg gives the number of proof instances, the lengths of *)
(* each proof's instance columns, the number of lookup arguments and the *)
(* number of items the transcript holds.  The transcript is a cursor:    *)
(* consumed counts the points/scalars read so far; tlog records every    *)
(* transcript operation (absorb, read, squeeze) in the order performed.  *)
(***************************************************************************)
MaxProofs == 2
MaxInstCols == 2
MaxLookups == 2
NumInstanceColumns == 1
DomainK == 3
DomainSize == 2 ^ DomainK
BlindingFactors == 5

(* Verifying keys: num_advice_columns (na), the permutation columns (npc) *)
(* and their chunk size degree - 2 (chunk), the quotient degree (qd), the *)
(* instance/advice/fixed query-list lengths (niq, naq, nfq).              *)
VKUnit == [na |-> 1, npc |-> 1, chunk |-> 1, qd |-> 1, niq |-> 1, naq |-> 1, nfq |-> 1]
VKWide == [na |-> 2, npc |-> 2, chunk |-> 1, qd |-> 5, niq |-> 1, naq |-> 3, nfq |-> 4]
VKs == { VKUnit, VKWide }

(* permutation columns chunked by degree - 2: one product set per chunk  *)
NumPermSets(vk) == (vk.npc + vk.chunk - 1) \div vk.chunk
(* n - (blinding_factors + 1), the bound on instance column lengths      *)
InstanceBound == DomainSize - (BlindingFactors + 1)
InstLens == { InstanceBound, InstanceBound + 1 }
(* Caller-supplied u, v, xi of from_transcript                           *)
UVXiChoices == { << 1, 2, 3 >>, << 3, 2, 1 >> }
(* vk.domain.get_omega(): ROOT_OF_UNITY^(2^(S - k)), the generator of the *)
(* subgroup of size DomainSize = 2^k                                      *)
Omega == FPow(RootOfUnity, 2 ^ (TwoAdicity - DomainK))
(* PlonkCommonSetup.l = blinding_factors + 1 (line 813)                   *)
CommonL == BlindingFactors + 1

RECURSIVE Flatten(_)
Flatten(ss) == IF ss = << >> THEN << >> ELSE Head(ss) \o Flatten(Tail(ss))

Items(op, tag, k, m) == [i \in 1 .. m |-> << op, tag, k, i - 1 >>]
PerProof(c, f) == Flatten([k \in 1 .. c.np |-> f[k - 1]])

(* Items the code reads from the transcript for configuration c.         *)
ReadCount(c) ==
      c.np * c.vk.na
    + c.np * c.nl * 2
    + c.np * NumPermSets(c.vk)
    + c.np * c.nl
    + 1
    + c.vk.qd
    + c.np * c.vk.niq
    + c.np * c.vk.naq
    + c.vk.nfq
    + 1
    + c.vk.npc
    + c.np * (3 * NumPermSets(c.vk) - 1)
    + c.np * c.nl * 5

Configs ==
    UNION { { [np |-> p, inst |-> is, nl |-> nl, vk |-> vk, tlen |-> t, uvxi |-> uvxi] :
              is \in [1 .. p -> UNION { [1 .. m -> InstLens] : m \in 0 .. MaxInstCols }],
              t \in 0 .. ReadCount([np |-> p, nl |-> nl, vk |-> vk]),
              uvxi \in UVXiChoices } :
            p \in 1 .. MaxProofs, nl \in 0 .. MaxLookups, vk \in VKs }

(* vk.hash_into followed by transcript.common_point of every instance     *)
(* commitment (lines 522-529)                                            *)
HashEntries(c) ==
    << << "absorb", "vk", 0, 0 >> >>
    \o PerProof(c, [k \in 0 .. c.np - 1 |-> Items("absorb", "instance", k, Len(c.inst[k + 1]))])
(* Mutant: one advice commitment fewer is read per proof.               *)
AdviceEntriesShort(c) == PerProof(c, [k \in 0 .. c.np - 1 |-> Items("read", "advice", k, c.vk.na - 1)])
(* read_n_points(num_advice_columns) per proof (lines 541-550)           *)
AdviceEntries(c) == PerProof(c, [k \in 0 .. c.np - 1 |-> Items("read", "advice", k, c.vk.na)])
(* Mutant: the permuted table commitment read before the input one.     *)
LookupPermutedEntriesTableFirst(c) ==
    PerProof(c, [k \in 0 .. c.np - 1 |-> Flatten([l \in 1 .. c.nl |->
        << << "read", "lookup_permuted_table", k, l - 1 >>,
           << "read", "lookup_permuted_input", k, l - 1 >> >>])])
(* argument.read_permuted_commitments per proof and lookup (558-567):     *)
(* the permuted input commitment, then the permuted table commitment    *)
LookupPermutedEntries(c) ==
    PerProof(c, [k \in 0 .. c.np - 1 |-> Flatten([l \in 1 .. c.nl |->
        << << "read", "lookup_permuted_input", k, l - 1 >>,
           << "read", "lookup_permuted_table", k, l - 1 >> >>])])
(* permutation.read_product_commitments per proof (579-584)              *)
PermProductEntries(c) == PerProof(c, [k \in 0 .. c.np - 1 |-> Items("read", "perm_product", k, NumPermSets(c.vk))])
(* lookup.read_product_commitment per proof and lookup (586-595)         *)
LookupProductEntries(c) == PerProof(c, [k \in 0 .. c.np - 1 |-> Items("read", "lookup_product", k, c.nl)])
RandomEntries(c) == << << "read", "random", 0, 0 >> >>
VanishEntries(c) == Items("read", "vanish", 0, c.vk.qd)
InstanceEvalEntries(c) == PerProof(c, [k \in 0 .. c.np - 1 |-> Items("read", "instance_eval", k, c.vk.niq)])
AdviceEvalEntries(c) == PerProof(c, [k \in 0 .. c.np - 1 |-> Items("read", "advice_eval", k, c.vk.naq)])
FixedEvalEntries(c) == Items("read", "fixed_eval", 0, c.vk.nfq)
RandomEvalEntries(c) == << << "read", "random_eval", 0, 0 >> >>
(* vk.permutation.evaluate: one evaluation per permutation column        *)
PermCommonEntries(c) == Items("read", "perm_common_eval", 0, c.vk.npc)
(* permutation.evaluate per proof: product and next evaluation of every  *)
(* set, and the last evaluation of every set but the last                *)
PermEvalEntries(c) == PerProof(c, [k \in 0 .. c.np - 1 |-> Items("read", "perm_eval", k, 3 * NumPermSets(c.vk) - 1)])
(* lookup.evaluate per proof and lookup: product, product next, permuted *)
(* input, permuted input inverse and permuted table evaluations          *)
LookupEvalEntries(c) == PerProof(c, [k \in 0 .. c.np - 1 |-> Items("read", "lookup_eval", k, 5 * c.nl)])
Squeeze(name) == << << "squeeze", name, 0, 0 >> >>

NumReads(es) == Cardinality({ i \in 1 .. Len(es) : es[i][1] = "read" })

(* One statement of from_transcript performing the transcript operations *)
(* es.  Every read is unwrap()ed: running past the end of the transcript *)
(* panics after the items that were still available were read.           *)
RunBlock(from, to, es) ==
    /\ tpc = from
    /\ LET avail == cfg.tlen - consumed
       IN IF NumReads(es) <= avail
          THEN /\ tlog' = tlog \o es
               /\ consumed' = consumed + NumReads(es)
               /\ tpc' = to
               /\ UNCHANGED << outcome, panicAt >>
          ELSE /\ tlog' = tlog \o SubSeq(es, 1, avail)
               /\ consumed' = cfg.tlen
               /\ tpc' = "failed"
               /\ outcome' = "panic"
               /\ panicAt' = from
    /\ UNCHANGED << cfg, vstate >>
    /\ UNCHANGED << evalVars, batchVars, rotVars, convVars, permVars >>

NoState == [none |-> TRUE]

CountRead(log, tag, k) ==
    Cardinality({ i \in 1 .. Len(log) :
                    log[i][1] = "read" /\ log[i][2] = tag /\ log[i][3] = k })
(* a per-proof vector: entry k is the number of items of proof k - 1      *)
PerProofCounts(log, tag, np) == [k \in 1 .. np |-> CountRead(log, tag, k - 1)]
(* lookup.evaluate reads five scalars per lookup; entry k is the number  *)
(* of lookups evaluated for proof k - 1                                   *)
LookupsEvaluated(log, np) ==
    [k \in 1 .. np |->
        Cardinality({ log[i][4] \div 5 : i \in { j \in 1 .. Len(log) :
                          log[j][1] = "read" /\ log[j][2] = "lookup_eval" /\ log[j][3] = k - 1 } })]
(* num_proofs = instance_commitments.len() (line 518)                      *)
NumProofs(c) == Len(c.inst)

(* Mutant: delta lifted from the multiplicative generator.               *)
VerifierStateGenerator(c, log) ==
    [ instance_commitments |-> [k \in 1 .. NumProofs(c) |-> Len(c.inst[k])],
      instance_evals |-> PerProofCounts(log, "instance_eval", NumProofs(c)),
      advice_commitments |-> PerProofCounts(log, "advice", NumProofs(c)),
      advice_evals |-> PerProofCounts(log, "advice_eval", NumProofs(c)),
      permutation_evaluated |-> PerProofCounts(log, "perm_product", NumProofs(c)),
      lookup_evaluated |-> LookupsEvaluated(log, NumProofs(c)),
      fixed_evals |-> CountRead(log, "fixed_eval", 0),
      vanish_commitments |-> CountRead(log, "vanish", 0),
      delta |-> from_constant(MultGenerator),
      omega |-> from_constant(Omega),
      u |-> from_constant(c.uvxi[1]),
      v |-> from_constant(c.uvxi[2]),
      xi |-> from_constant(c.uvxi[3]),
      l |-> BlindingFactors + 1,
      n |-> DomainSize ]
(* The VerifierParams value built at lines 793-870 from what was read:   *)
(* list-valued fields are represented by the lengths of their entries;   *)
(* delta, omega, u, v, xi are lifted with sgate.from_constant.           *)
VerifierState(c, log) ==
    [ instance_commitments |-> [k \in 1 .. NumProofs(c) |-> Len(c.inst[k])],
      instance_evals |-> PerProofCounts(log, "instance_eval", NumProofs(c)),
      advice_commitments |-> PerProofCounts(log, "advice", NumProofs(c)),
      advice_evals |-> PerProofCounts(log, "advice_eval", NumProofs(c)),
      permutation_evaluated |-> PerProofCounts(log, "perm_product", NumProofs(c)),
      lookup_evaluated |-> LookupsEvaluated(log, NumProofs(c)),
      fixed_evals |-> CountRead(log, "fixed_eval", 0),
      vanish_commitments |-> CountRead(log, "vanish", 0),
      delta |-> from_constant(Delta),
      omega |-> from_constant(Omega),
      u |-> from_constant(c.uvxi[1]),
      v |-> from_constant(c.uvxi[2]),
      xi |-> from_constant(c.uvxi[3]),
      l |-> BlindingFactors + 1,
      n |-> DomainSize ]

TranscriptInit ==
    /\ cfg \in Configs
    /\ tpc = "validate"
    /\ tlog = << >>
    /\ consumed = 0
    /\ outcome = "none"
    /\ panicAt = "none"
    /\ vstate = NoState

(* lines 501-503: assert!(instances.len() != vk.cs.num_instance_columns) *)
ValidateInstanceCount ==
    /\ tpc = "validate"
    /\ IF \E k \in 1 .. cfg.np : ~(Len(cfg.inst[k]) /= NumInstanceColumns)
       THEN /\ tpc' = "failed" /\ outcome' = "panic" /\ panicAt' = "validate"
       ELSE /\ tpc' = "commit_instances" /\ UNCHANGED << outcome, panicAt >>
    /\ UNCHANGED << cfg, tlog, consumed, vstate >>
    /\ UNCHANGED << evalVars, batchVars, rotVars, convVars, permVars >>

(* lines 505-516: assert!(instance.len() > n - (blinding_factors + 1))   *)
(* for every column, then commit_lagrange                                 *)
CommitInstances ==
    /\ tpc = "commit_instances"
    /\ IF \E k \in 1 .. cfg.np : \E j \in 1 .. Len(cfg.inst[k]) :
              ~(cfg.inst[k][j] > InstanceBound)
       THEN /\ tpc' = "failed" /\ outcome' = "panic" /\ panicAt' = "commit_instances"
       ELSE /\ tpc' = "hash" /\ UNCHANGED << outcome, panicAt >>
    /\ UNCHANGED << cfg, tlog, consumed, vstate >>
    /\ UNCHANGED << evalVars, batchVars, rotVars, convVars, permVars >>

HashInstances == RunBlock("hash", "advice", HashEntries(cfg))
ReadAdvice == RunBlock("advice", "theta", AdviceEntries(cfg))
SqueezeTheta == RunBlock("theta", "lookups_permuted", Squeeze("theta"))
ReadLookupsPermuted == RunBlock("lookups_permuted", "beta", LookupPermutedEntries(cfg))
SqueezeBeta == RunBlock("beta", "gamma", Squeeze("beta"))
SqueezeGamma == RunBlock("gamma", "perm_products", Squeeze("gamma"))
ReadPermProducts == RunBlock("perm_products", "lookup_products", PermProductEntries(cfg))
ReadLookupProducts == RunBlock("lookup_products", "random", LookupProductEntries(cfg))
ReadRandom == RunBlock("random", "y", RandomEntries(cfg))
SqueezeY == RunBlock("y", "vanish", Squeeze("y"))
ReadVanish == RunBlock("vanish", "x", VanishEntries(cfg))
SqueezeX == RunBlock("x", "instance_evals", Squeeze("x"))
ReadInstanceEvals == RunBlock("instance_evals", "advice_evals", InstanceEvalEntries(cfg))
ReadAdviceEvals == RunBlock("advice_evals", "fixed_evals", AdviceEvalEntries(cfg))
ReadFixedEvals == RunBlock("fixed_evals", "random_eval", FixedEvalEntries(cfg))
ReadRandomEval == RunBlock("random_eval", "perm_common", RandomEvalEntries(cfg))
EvaluatePermCommon == RunBlock("perm_common", "perm_eval", PermCommonEntries(cfg))
EvaluatePermutations == RunBlock("perm_eval", "lookup_eval", PermEvalEntries(cfg))
EvaluateLookups == RunBlock("lookup_eval", "assemble", LookupEvalEntries(cfg))

(* lines 726-870: re-typing and lifting, no transcript operation          *)
Assemble ==
    /\ tpc = "assemble"
    /\ tpc' = "done"
    /\ outcome' = "ok"
    /\ vstate' = VerifierState(cfg, tlog)
    /\ UNCHANGED << cfg, tlog, consumed, panicAt >>
    /\ UNCHANGED << evalVars, batchVars, rotVars, convVars, permVars >>


(***************************************************************************)
(* SchemaGenerator::batch_multi_open_proofs (lines 374-403).              *)
(* bQueries is the list of opening queries <<point, commitment, s>> the  *)
(* verifier state demands, bU the batching challenge u.                   *)
(***************************************************************************)
MaxBatchQueries == 2
MaxBatchVal == 2
BatchVals == 0 .. MaxBatchVal

BatchInit ==
    /\ bQueries \in UNION { [1 .. m -> BatchVals \X BatchVals \X BatchVals] :
                            m \in 1 .. MaxBatchQueries }
    /\ bU \in BatchVals
    /\ bPc = "idle"
    /\ bWx = 0
    /\ bWg = 0

(* SchemaGenerator::get_point_schemas (lines 365-372): unimplemented!()  *)
get_point_schemas == [panic |-> TRUE, proofs |-> << >>]

(* batch_multi_open_proofs first obtains the proofs from                 *)
(* get_point_schemas with `?`; that call panics, so the handler never    *)
(* reaches the accumulation.                                             *)
BatchMultiOpenProofs ==
    /\ bPc = "idle"
    /\ get_point_schemas.panic
    /\ bPc' = "panic"
    /\ UNCHANGED << bQueries, bU, bWx, bWg >>
    /\ UNCHANGED << evalVars, transcriptVars, rotVars, convVars, permVars >>

(***************************************************************************)
(* IVerifierParams::rotate_omega / x_next / x_last (lines 172-186).       *)
(* rX is the challenge x, rA a rotation offset; Omega generates the      *)
(* multiplicative subgroup of size DomainSize.                            *)
(***************************************************************************)
MaxRot == 5
RotAts == (-MaxRot) .. MaxRot

(* l_0, l_last and l_blind of queries (lines 203-206), not yet computed  *)
NoLagrange == [none |-> TRUE]

RotInit ==
    /\ rX \in Field
    /\ rA \in RotAts
    /\ rPc = "idle"
    /\ rRes = 0
    /\ qPc = "idle"
    /\ xNext = -1
    /\ xLast = -1
    /\ qhPc = "idle"
    /\ qhXn = -1
    /\ qhList = << >>
    /\ qhExprs = << >>
    /\ qhLagrange = NoLagrange

(* rotate_omega: unimplemented!("rotate omega")                           *)
rotate_omega(x, at) == [panic |-> TRUE, v |-> 0]

RotateOmega ==
    /\ rPc = "idle"
    /\ LET r == rotate_omega(rX, rA)
       IN IF r.panic THEN /\ rPc' = "panic" /\ UNCHANGED rRes
                     ELSE /\ rPc' = "done" /\ rRes' = r.v
    /\ UNCHANGED << rX, rA, qPc, xNext, xLast, qhPc, qhXn, qhList, qhExprs, qhLagrange >>
    /\ UNCHANGED << evalVars, transcriptVars, batchVars, convVars, permVars >>

(* x_next: x * omega                                                      *)
XNext ==
    /\ xNext = -1
    /\ rPc /= "off"
    /\ xNext' = FMul(rX, Omega)
    /\ UNCHANGED << rX, rA, rPc, rRes, qPc, xLast, qhPc, qhXn, qhList, qhExprs, qhLagrange >>
    /\ UNCHANGED << evalVars, transcriptVars, batchVars, convVars, permVars >>

(* x_last: rotate_omega(x, -(l as i32))                                   *)
XLast ==
    /\ qPc = "idle"
    /\ LET r == rotate_omega(rX, -CommonL)
       IN IF r.panic THEN /\ qPc' = "panic" /\ UNCHANGED xLast
                     ELSE /\ qPc' = "done" /\ xLast' = r.v
    /\ UNCHANGED << rX, rA, rPc, rRes, xNext, qhPc, qhXn, qhList, qhExprs, qhLagrange >>
    /\ UNCHANGED << evalVars, transcriptVars, batchVars, convVars, permVars >>

(* IVerifierParams::queries (lines 188-350): computes x_next, then        *)
(* x_last = rotate_omega(x, -l), which panics; the later                  *)
(* xn = rotate_omega(x, n) (line 202) and the final                       *)
(* unimplemented!("get point schemas not implemented") (line 349) are     *)
(* never reached, so the handler never returns a query list.              *)
Queries ==
    /\ qhPc = "idle"
    /\ rotate_omega(rX, -CommonL).panic
    /\ qhPc' = "panic"
    /\ UNCHANGED << rX, rA, rPc, rRes, qPc, xNext, xLast, qhXn, qhList, qhExprs, qhLagrange >>
    /\ UNCHANGED << evalVars, transcriptVars, batchVars, convVars, permVars >>

(***************************************************************************)
(* VerifierParams::from_expression (lines 407-480).                       *)
(* Leaves carry query index, column index and rotation:                  *)
(*   <<"Fixed", q, col, rot>> etc.; Selector nodes carry their selector. *)
(***************************************************************************)
MaxConvDepth == 1
MaxConvVal == 2
MaxConvCol == 1
MaxConvRot == 1
MaxConvQuery == 1

ConvLeaves ==
    { <<"Constant", c>> : c \in 1 .. MaxConvVal } \cup { <<"Selector", 0>> }
    \cup { <<t, q, col, rot>> : t \in {"Fixed", "Advice", "Instance"}, q \in 0 .. MaxConvQuery,
                                col \in 0 .. MaxConvCol, rot \in 0 .. MaxConvRot }

RECURSIVE ConvExprs(_)
ConvExprs(d) ==
    IF d = 0 THEN ConvLeaves
    ELSE LET S == ConvExprs(d - 1) IN
         S \cup { <<"Negated", a>> : a \in S }
           \cup { <<"Sum", a, b>> : a \in S, b \in S }
           \cup { <<"Product", a, b>> : a \in S, b \in S }
           \cup { <<"Scaled", a, f>> : a \in S, f \in 1 .. MaxConvVal }


(* Mutant of from_expression: Advice nodes lose their rotation.          *)
RECURSIVE from_expression_drop_rotation(_)
from_expression_drop_rotation(e) ==
    CASE e[1] = "Constant" -> << "Constant", from_constant(e[2]) >>
      [] e[1] = "Selector" -> e
      [] e[1] = "Fixed" -> << "Fixed", e[2], e[3], e[4] >>
      [] e[1] = "Advice" -> << "Advice", e[2], e[3], 0 >>
      [] e[1] = "Instance" -> << "Instance", e[2], e[3], e[4] >>
      [] e[1] = "Negated" -> << "Negated", from_expression_drop_rotation(e[2]) >>
      [] e[1] = "Sum" -> << "Sum", from_expression_drop_rotation(e[2]),
                                   from_expression_drop_rotation(e[3]) >>
      [] e[1] = "Product" -> << "Product", from_expression_drop_rotation(e[2]),
                                           from_expression_drop_rotation(e[3]) >>
      [] e[1] = "Scaled" -> << "Scaled", from_expression_drop_rotation(e[2]),
                                         from_constant(e[3]) >>

RECURSIVE from_expression(_)
from_expression(e) ==
    CASE e[1] = "Constant" -> << "Constant", from_constant(e[2]) >>
      [] e[1] = "Selector" -> e
      [] e[1] = "Fixed" -> << "Fixed", e[2], e[3], e[4] >>
      [] e[1] = "Advice" -> << "Advice", e[2], e[3], e[4] >>
      [] e[1] = "Instance" -> << "Instance", e[2], e[3], e[4] >>
      [] e[1] = "Negated" -> << "Negated", from_expression(e[2]) >>
      [] e[1] = "Sum" -> << "Sum", from_expression(e[2]), from_expression(e[3]) >>
      [] e[1] = "Product" -> << "Product", from_expression(e[2]), from_expression(e[3]) >>
      [] e[1] = "Scaled" -> << "Scaled", from_expression(e[2]), from_constant(e[3]) >>

ConvInit ==
    /\ fExpr \in ConvExprs(MaxConvDepth)
    /\ fPc = "idle"
    /\ fRes = << "Constant", 0 >>

FromExpression ==
    /\ fPc = "idle"
    /\ fRes' = from_expression(fExpr)
    /\ fPc' = "done"
    /\ UNCHANGED fExpr
    /\ UNCHANGED << evalVars, transcriptVars, batchVars, rotVars, permVars >>

(***************************************************************************)
(* Permutation Evaluated construction of from_transcript (lines 647-714). *)
(* pCols are the permutation columns <<type, index>>, pDeg is            *)
(* vk.cs.degree(); pAdv and pInst hold, per proof, that proof's advice    *)
(* and instance evaluations, pFix the shared fixed evaluations.           *)
(***************************************************************************)
MaxPermProofs == 2
MaxPermCols == 2
MaxPermVal == 1
PermDegrees == { 3, 4 }
PermColumnChoices ==
    { << "Advice", 0 >>, << "Advice", 1 >>, << "Fixed", 0 >>, << "Instance", 0 >> }
(* vk.cs.advice_queries / fixed_queries / instance_queries as           *)
(* (column index, rotation)                                              *)
AdviceQueryList == << << 0, 1 >>, << 0, 0 >>, << 1, 0 >> >>
FixedQueryList == << << 0, 0 >> >>
InstanceQueryList == << << 0, 0 >> >>

QueryListOf(t) ==
    CASE t = "Advice" -> AdviceQueryList
      [] t = "Fixed" -> FixedQueryList
      [] t = "Instance" -> InstanceQueryList

(* vk.cs.get_any_query_index(column, rotation), as a 1-based position     *)
get_any_query_index(col, rot) ==
    LET ql == QueryListOf(col[1])
    IN CHOOSE i \in 1 .. Len(ql) : ql[i] = << col[2], rot >>

Min(a, b) == IF a < b THEN a ELSE b
NumChunks(n, size) == (n + size - 1) \div size
(* slice::chunks(size)                                                    *)
Chunks(cols, size) ==
    [c \in 1 .. NumChunks(Len(cols), size) |->
        SubSeq(cols, (c - 1) * size + 1, Min(c * size, Len(cols)))]
(* Iterator::zip: pairs up to the shorter of the two sequences           *)
Zip(a, b) == [i \in 1 .. Min(Len(a), Len(b)) |-> << a[i], b[i] >>]

(* the match on column.column_type() (lines 682-693), Rotation::cur()     *)
ColumnEval(col, adv, fix, inst) ==
    CASE col[1] = "Advice" -> adv[get_any_query_index(col, 0)]
      [] col[1] = "Fixed" -> fix[get_any_query_index(col, 0)]
      [] col[1] = "Instance" -> inst[get_any_query_index(col, 0)]

(* Mutant: only the first chunk of columns is kept.                      *)
PermutationEvaluatedEvalsFirstChunk(cols, deg, adv, fix, inst) ==
    LET ch == Chunks(cols, deg - 2)
    IN [j \in 1 .. Len(ch[1]) |-> ColumnEval(ch[1][j], adv, fix, inst)]

(* the evals of one proof (lines 675-699): chunks(degree - 2), the        *)
(* evaluation of each column, then concat                                 *)
PermutationEvaluatedEvals(cols, deg, adv, fix, inst) ==
    LET ch == Chunks(cols, deg - 2)
    IN Flatten([c \in 1 .. Len(ch) |->
                  [j \in 1 .. Len(ch[c]) |-> ColumnEval(ch[c][j], adv, fix, inst)]])

(* the EvaluatedSets of proof k (lines 647-670): one per product set that *)
(* permutation.evaluate read from proof k's transcript data (one per      *)
(* chunk), each tagged with its product commitment                        *)
PermutationEvaluatedSets(k, cols, deg) ==
    [s \in 1 .. NumChunks(Len(cols), deg - 2) |->
        [product_commitment |-> << "perm_product", k, s - 1 >>, chunk_len |-> deg - 2]]

PermInit ==
    /\ pCols \in UNION { [1 .. m -> PermColumnChoices] : m \in 1 .. MaxPermCols }
    /\ pDeg \in PermDegrees
    /\ \E np \in 1 .. MaxPermProofs :
          /\ pAdv \in [1 .. np -> [1 .. Len(AdviceQueryList) -> 0 .. MaxPermVal]]
          /\ pInst \in [1 .. np -> [1 .. Len(InstanceQueryList) -> 0 .. MaxPermVal]]
    /\ pFix \in [1 .. Len(FixedQueryList) -> 0 .. MaxPermVal]
    /\ pPc = "idle"
    /\ pRes = << >>

(* lines 647-714: the sets of every proof, the evals of every proof from  *)
(* advice_evals zipped with instance_evals (671-674), then the sets      *)
(* zipped with the evals into Evaluated { x, sets, evals,                 *)
(* chunk_len: degree - 2 } (702-712)                                      *)
PermutationEvaluated ==
    /\ pPc = "idle"
    /\ LET sets == [k \in 1 .. Len(pAdv) |-> PermutationEvaluatedSets(k - 1, pCols, pDeg)]
           ai == Zip(pAdv, pInst)
           evals == [i \in 1 .. Len(ai) |->
                       PermutationEvaluatedEvals(pCols, pDeg, ai[i][1], pFix, ai[i][2])]
           se == Zip(sets, evals)
       IN pRes' = [i \in 1 .. Len(se) |->
                     [ sets |-> se[i][1], evals |-> se[i][2], chunk_len |-> pDeg - 2 ]]
    /\ pPc' = "done"
    /\ UNCHANGED << pCols, pDeg, pAdv, pFix, pInst >>
    /\ UNCHANGED << evalVars, transcriptVars, batchVars, rotVars, convVars >>

(***************************************************************************)
(* Specification: one verification component is exercised per behaviour. *)
(***************************************************************************)
EvalOff ==
    /\ eExpr = <<"Constant", 0>> /\ eFixed = << >> /\ eAdvice = << >>
    /\ eInstance = << >> /\ ePc = "off" /\ eRes = Ok(0, << >>)
TranscriptOff ==
    /\ cfg = [np |-> 0, inst |-> << >>, nl |-> 0, vk |-> VKUnit, tlen |-> 0, uvxi |-> << 0, 0, 0 >>]
    /\ tpc = "off" /\ tlog = << >> /\ consumed = 0
    /\ outcome = "none" /\ panicAt = "none" /\ vstate = NoState
BatchOff ==
    /\ bQueries = << >> /\ bU = 0 /\ bPc = "off" /\ bWx = 0 /\ bWg = 0
RotOff ==
    /\ rX = 0 /\ rA = 0 /\ rPc = "off" /\ rRes = 0
    /\ qPc = "off" /\ xNext = 0 /\ xLast = 0
    /\ qhPc = "off" /\ qhXn = 0 /\ qhList = << >>
    /\ qhExprs = << >> /\ qhLagrange = NoLagrange
PermOff ==
    /\ pCols = << >> /\ pDeg = 0 /\ pAdv = << >> /\ pFix = << >>
    /\ pInst = << >> /\ pPc = "off" /\ pRes = << >>
ConvOff ==
    /\ fExpr = << "Constant", 0 >> /\ fPc = "off" /\ fRes = << "Constant", 0 >>

Init ==
    \/ EvalInit /\ TranscriptOff /\ BatchOff /\ RotOff /\ ConvOff /\ PermOff
    \/ EvalOff /\ TranscriptInit /\ BatchOff /\ RotOff /\ ConvOff /\ PermOff
    \/ EvalOff /\ TranscriptOff /\ BatchInit /\ RotOff /\ ConvOff /\ PermOff
    \/ EvalOff /\ TranscriptOff /\ BatchOff /\ RotInit /\ ConvOff /\ PermOff
    \/ EvalOff /\ TranscriptOff /\ BatchOff /\ RotOff /\ ConvInit /\ PermOff
    \/ EvalOff /\ TranscriptOff /\ BatchOff /\ RotOff /\ ConvOff /\ PermInit

Next ==
    \/ CtxEvaluate
    \/ ValidateInstanceCount
    \/ CommitInstances
    \/ HashInstances
    \/ ReadAdvice
    \/ SqueezeTheta
    \/ ReadLookupsPermuted
    \/ SqueezeBeta
    \/ SqueezeGamma
    \/ ReadPermProducts
    \/ ReadLookupProducts
    \/ ReadRandom
    \/ SqueezeY
    \/ ReadVanish
    \/ SqueezeX
    \/ ReadInstanceEvals
    \/ ReadAdviceEvals
    \/ ReadFixedEvals
    \/ ReadRandomEval
    \/ EvaluatePermCommon
    \/ EvaluatePermutations
    \/ EvaluateLookups
    \/ Assemble
    \/ BatchMultiOpenProofs
    \/ RotateOmega
    \/ XNext
    \/ XLast
    \/ Queries
    \/ FromExpression
    \/ PermutationEvaluated

Spec == Init /\ [][Next]_vars


(***************************************************************************)
(* Properties.                                                            *)
(***************************************************************************)

(* Reference semantics of a gate expression: Expression::evaluate with    *)
(* the closures of test_ctx_evaluate (constant as-is, column lookup by    *)
(* query index, -a, a + b, a * b, a * scalar).                            *)
RECURSIVE DirectEvaluate(_, _, _, _)
DirectEvaluate(e, fixed, advice, instance) ==
    CASE e[1] = "Constant" -> e[2]
      [] e[1] = "Fixed" -> fixed[e[2] + 1]
      [] e[1] = "Advice" -> advice[e[2] + 1]
      [] e[1] = "Instance" -> instance[e[2] + 1]
      [] e[1] = "Negated" -> (- DirectEvaluate(e[2], fixed, advice, instance)) % Modulus
      [] e[1] = "Sum" -> (DirectEvaluate(e[2], fixed, advice, instance)
                           + DirectEvaluate(e[3], fixed, advice, instance)) % Modulus
      [] e[1] = "Product" -> (DirectEvaluate(e[2], fixed, advice, instance)
                               * DirectEvaluate(e[3], fixed, advice, instance)) % Modulus
      [] e[1] = "Scaled" -> (DirectEvaluate(e[2], fixed, advice, instance) * e[3]) % Modulus
      [] OTHER -> 0

(* C1: for every selector-free gate expression and every assignment of    *)
(* fixed/advice/instance evaluations, ctx_evaluate in the native context  *)
(* returns the value of the direct arithmetic evaluation of the tree.     *)
EvaluatorEquivalence ==
    (ePc \in {"done", "panic"} /\ ~HasSelector(eExpr))
        => (ePc = "done"
            /\ eRes.v = DirectEvaluate(eExpr, eFixed, eAdvice, eInstance))

EvaluatorEquivalenceWitness ==
    /\ ePc = "done"
    /\ eExpr[1] \in {"Negated", "Sum", "Product", "Scaled"}
    /\ eRes.v /= 0


(* C6: a Selector node makes ctx_evaluate fail with an                    *)
(* UnsupportedExpression error value rather than a process panic.        *)
SelectorIsUnsupportedExpression ==
    (ePc \in {"done", "panic"} /\ HasSelector(eExpr))
        => ePc = "UnsupportedExpression"

(* The replay order stated for from_transcript, written out step by step. *)
IsPrefix(s, t) == Len(s) <= Len(t) /\ s = SubSeq(t, 1, Len(s))

ClaimOrder(c) ==
    LET np == c.np
        nl == c.nl
        ic == [k \in 0 .. np - 1 |-> Len(c.inst[k + 1])]
        RECURSIVE InstAbsorb(_)
        InstAbsorb(k) ==
            IF k = np THEN << >>
            ELSE [j \in 1 .. ic[k] |-> << "absorb", "instance", k, j - 1 >>] \o InstAbsorb(k + 1)
        Grid(op, tag, m) == [i \in 1 .. np * m |-> << op, tag, (i - 1) \div m, (i - 1) % m >>]
        Perm2(i) == IF (i - 1) % 2 = 0 THEN "lookup_permuted_input" ELSE "lookup_permuted_table"
        Permuted == [i \in 1 .. np * nl * 2 |->
                       << "read", Perm2(i), (i - 1) \div (2 * nl), ((i - 1) % (2 * nl)) \div 2 >>]
        One(op, tag) == << << op, tag, 0, 0 >> >>
        Flat(tag, m) == [i \in 1 .. m |-> << "read", tag, 0, i - 1 >>]
    IN  One("absorb", "vk") \o InstAbsorb(0)
        \o Grid("read", "advice", c.vk.na)
        \o One("squeeze", "theta")
        \o Permuted
        \o One("squeeze", "beta") \o One("squeeze", "gamma")
        \o Grid("read", "perm_product", NumPermSets(c.vk))
        \o Grid("read", "lookup_product", nl)
        \o One("read", "random")
        \o One("squeeze", "y")
        \o Flat("vanish", c.vk.qd)
        \o One("squeeze", "x")
        \o Grid("read", "instance_eval", c.vk.niq)
        \o Grid("read", "advice_eval", c.vk.naq)
        \o Flat("fixed_eval", c.vk.nfq)
        \o One("read", "random_eval")
        \o Flat("perm_common_eval", c.vk.npc)
        \o Grid("read", "perm_eval", 3 * NumPermSets(c.vk) - 1)
        \o Grid("read", "lookup_eval", 5 * nl)

(* C2: the transcript operations performed by from_transcript are always *)
(* a prefix of the stated protocol order, and the whole order once the    *)
(* reconstruction has completed.                                          *)
ReplayOrder ==
    tpc /= "off" =>
        /\ IsPrefix(tlog, ClaimOrder(cfg))
        /\ (tpc = "done" => tlog = ClaimOrder(cfg))

ReplayOrderWitness ==
    /\ tpc = "done"
    /\ cfg.np = MaxProofs
    /\ cfg.nl = MaxLookups
    /\ cfg.vk = VKWide
    /\ \E k \in 1 .. cfg.np : Len(cfg.inst[k]) > 0

ReadStages == { "advice", "lookups_permuted", "perm_products", "lookup_products",
                "random", "vanish", "instance_evals", "advice_evals",
                "fixed_evals", "random_eval", "perm_common", "perm_eval",
                "lookup_eval" }

(* C3: a transcript read past the end of the data ends from_transcript    *)
(* with a MalformedProof error value, never a panic.                      *)
ReadPastEndIsMalformedProof ==
    (tpc = "failed" /\ panicAt \in ReadStages) => outcome = "MalformedProof"

(* C4: a proof whose number of instance columns differs from the          *)
(* verifying key's is rejected with MalformedProof; equal counts pass.     *)
InstanceCountValidated ==
    tpc \notin {"off", "validate"} =>
        ((\E k \in 1 .. cfg.np : Len(cfg.inst[k]) /= NumInstanceColumns)
            <=> (tpc = "failed" /\ panicAt = "validate" /\ outcome = "MalformedProof"))

(* C5: an instance column longer than n - (blinding_factors + 1) is       *)
(* rejected with MalformedProof; columns within the bound are committed.   *)
InstanceLengthValidated ==
    (tpc \notin {"off", "validate", "commit_instances"} /\ panicAt /= "validate")
        => ((\E k \in 1 .. cfg.np : \E j \in 1 .. Len(cfg.inst[k]) :
                  cfg.inst[k][j] > InstanceBound)
            <=> (tpc = "failed" /\ panicAt = "commit_instances"
                 /\ outcome = "MalformedProof"))

(* omega^a for an integer a, negative a through the inverse of omega     *)
OmegaPow(a) == IF a >= 0 THEN FPow(Omega, a) ELSE FPow(FInv(Omega), -a)

(* Sum_i u^i * c_i and Sum_i u^i * (z_i * c_i + s_i) over the queries     *)
(* q_0 .. q_{k-1} (each query is <<point z, commitment c, remainder s>>). *)
RECURSIVE SumWx(_, _, _)
SumWx(qs, u, i) ==
    IF i > Len(qs) THEN 0
    ELSE FAdd(FMul(FPow(u, i - 1), qs[i][2]), SumWx(qs, u, i + 1))
RECURSIVE SumWg(_, _, _)
SumWg(qs, u, i) ==
    IF i > Len(qs) THEN 0
    ELSE FAdd(FMul(FPow(u, i - 1), FAdd(FMul(qs[i][1], qs[i][2]), qs[i][3])),
              SumWg(qs, u, i + 1))

(* C7: batch_multi_open_proofs returns w_x = Sum_i u^i c_i and            *)
(* w_g = Sum_i u^i (z_i c_i + s_i): every query is folded.               *)
BatchFoldsEveryQuery ==
    bPc \in {"done", "panic"} =>
        /\ bPc = "done"
        /\ bWx = SumWx(bQueries, bU, 1)
        /\ bWg = SumWg(bQueries, bU, 1)

(* Folding the queries one by one in reverse order: the last query seeds *)
(* the pair, each preceding query is folded into it.                      *)
RECURSIVE StepFold(_, _, _)
StepFold(qs, u, i) ==
    IF i = Len(qs)
    THEN << qs[i][2], FAdd(FMul(qs[i][1], qs[i][2]), qs[i][3]) >>
    ELSE LET acc == StepFold(qs, u, i + 1)
         IN << FAdd(FMul(u, acc[1]), qs[i][2]),
               FAdd(FAdd(FMul(u, acc[2]), FMul(qs[i][1], qs[i][2])), qs[i][3]) >>

(* C8: the pair returned by batch_multi_open_proofs for the full list     *)
(* equals the pair obtained by folding the queries one by one.           *)
BatchMatchesStepwiseFold ==
    bPc \in {"done", "panic"} =>
        (bPc = "done" /\ << bWx, bWg >> = StepFold(bQueries, bU, 1))

(* C9: rotate_omega(x, a) returns x * omega^a for every integer a.        *)
RotateOmegaExact ==
    rPc \in {"done", "panic"} =>
        (rPc = "done" /\ rRes = FMul(rX, OmegaPow(rA)))

(* C10: x_next = x * omega and x_last = x * omega^(-l) are computed        *)
(* without error.                                                          *)
OpeningPointsComputed ==
    /\ (rPc /= "off" /\ xNext /= -1) => xNext = FMul(rX, Omega)
    /\ qPc \in {"done", "panic"} =>
          (qPc = "done" /\ xLast = FMul(rX, OmegaPow(-CommonL)))


(* Column lookups of a tree, leftmost leaf first.                         *)
KindOf(e) == IF e[1] = "Fixed" THEN "fixed" ELSE IF e[1] = "Advice" THEN "advice" ELSE "instance"
RECURSIVE LeafLookupsTagged(_)
LeafLookupsTagged(e) ==
    CASE e[1] \in {"Fixed", "Advice", "Instance"} -> << << KindOf(e), e[2] >> >>
      [] e[1] \in {"Negated", "Scaled"} -> LeafLookupsTagged(e[2])
      [] e[1] \in {"Sum", "Product"} -> LeafLookupsTagged(e[2]) \o LeafLookupsTagged(e[3])
      [] OTHER -> << >>

IsLookup(call) == call[1] \in {"fixed", "advice", "instance"}
LookupsOf(calls) == SelectSeq(calls, IsLookup)
Last(s) == s[Len(s)]

(* C18: Negated(a) computes zero - eval(a) after taking the ring's zero,  *)
(* Scaled(a, f) computes f * eval(a), and Sum and Product evaluate their  *)
(* left operand before their right operand.                               *)
EvaluationOrder ==
    ePc = "done" =>
        LET c == eRes.calls
            av == DirectEvaluate(eExpr[2], eFixed, eAdvice, eInstance)
        IN  /\ LookupsOf(c) = LeafLookupsTagged(eExpr)
            /\ eExpr[1] = "Negated" =>
                  /\ Len(c) >= 2
                  /\ c[Len(c) - 1] = << "zero" >>
                  /\ Last(c) = << "sub", FZero, av >>
            /\ eExpr[1] = "Scaled" => Last(c) = << "mul", eExpr[3], av >>

EvaluationOrderWitness ==
    /\ ePc = "done"
    /\ eExpr[1] = "Sum"
    /\ Len(LookupsOf(eRes.calls)) = 2
    /\ eRes.calls[1] /= eRes.calls[2]


(* C11: the xn handed to the Lagrange computation and the vanishing      *)
(* argument by queries is x^n.                                            *)
XnIsXPowN ==
    qhPc \in {"done", "panic"} => (qhPc = "done" /\ qhXn = FPow(rX, DomainSize))

(* The opening-query list in the stated order for a verifying key with  *)
(* one instance query (0, 0), advice queries (0, 0) and (0, 1), one      *)
(* fixed query (0, 0), no lookups, and one proof instance.               *)
ExpectedQueryList(x) ==
    << << FMul(x, OmegaPow(0)), << "instance_commitment", 0, 0 >>, << "instance_eval", 0, 0 >> >>,
       << FMul(x, OmegaPow(0)), << "advice_commitment", 0, 0 >>, << "advice_eval", 0, 0 >> >>,
       << FMul(x, OmegaPow(1)), << "advice_commitment", 0, 0 >>, << "advice_eval", 0, 1 >> >>,
       << FMul(x, Omega), << "perm_product", 0, 0 >>, << "perm_product_next_eval", 0, 0 >> >>,
       << FMul(x, OmegaPow(-CommonL)), << "perm_product", 0, 0 >>, << "perm_product_last_eval", 0, 0 >> >>,
       << FMul(x, OmegaPow(0)), << "fixed_commitment", 0, 0 >>, << "fixed_eval", 0, 0 >> >>,
       << x, << "permutation_commitment", 0, 0 >>, << "permutation_eval", 0, 0 >> >>,
       << x, << "vanish", 0, 0 >>, << "vanish_eval", 0, 0 >> >> >>

(* C12: queries returns the opening-query list in the stated order, each *)
(* direct query being (rotate_omega(x, at), commitment, evaluation).      *)
QueryListInOrder ==
    qhPc \in {"done", "panic"} => (qhPc = "done" /\ qhList = ExpectedQueryList(rX))

(* C13: every stage of the pipeline ends with a value or an error value:  *)
(* from_transcript never panics, and queries and batch_multi_open_proofs *)
(* return.                                                                *)
PipelineReturnsValueOrError ==
    /\ tpc = "failed" => outcome = "MalformedProof"
    /\ qhPc \in {"done", "panic"} => qhPc = "done"
    /\ bPc \in {"done", "panic"} => bPc = "done"

(* A proof generated by an honest prover for the verifying key: every    *)
(* proof has the key's number of instance columns, every column is within *)
(* the blinding bound, and the transcript holds exactly the prover's data.*)
HonestInput(c) ==
    /\ \A k \in 1 .. c.np : Len(c.inst[k]) = NumInstanceColumns
    /\ \A k \in 1 .. c.np : \A j \in 1 .. Len(c.inst[k]) : c.inst[k][j] <= InstanceBound
    /\ c.tlen = NumReads(ClaimOrder(c))

(* C14: for an honestly generated proof from_transcript succeeds, having *)
(* squeezed every challenge at the prover's protocol step.               *)
HonestProofReconstructs ==
    (tpc \in {"done", "failed"} /\ HonestInput(cfg))
        => (tpc = "done" /\ tlog = ClaimOrder(cfg))

(* A primitive DomainSize-th root of unity: a generator of the evaluation *)
(* domain's subgroup (DomainSize is a power of two).                      *)
IsDomainGenerator(w) ==
    FPow(w, DomainSize) = 1 /\ FPow(w, DomainSize \div 2) /= 1

AssembledLengths ==
    tpc = "done" =>
        LET P == cfg.np
            vk == cfg.vk
        IN
        /\ Len(vstate.instance_commitments) = P
        /\ Len(vstate.instance_evals) = P
        /\ Len(vstate.advice_commitments) = P
        /\ Len(vstate.advice_evals) = P
        /\ Len(vstate.permutation_evaluated) = P
        /\ Len(vstate.lookup_evaluated) = P
        /\ \A k \in 1 .. P :
              /\ vstate.advice_commitments[k] = vk.na
              /\ vstate.instance_evals[k] = vk.niq
              /\ vstate.advice_evals[k] = vk.naq
              /\ vstate.lookup_evaluated[k] = cfg.nl
        /\ vstate.fixed_evals = vk.nfq
        /\ vstate.vanish_commitments = vk.qd

AssembledLengthsWitness ==
    tpc = "done" /\ cfg.np = MaxProofs /\ cfg.nl = MaxLookups /\ cfg.vk = VKWide

(* Undo the lifting of constants.                                          *)
RECURSIVE Unlift(_)
Unlift(e) ==
    CASE e[1] = "Constant" -> << "Constant", e[2][2] >>
      [] e[1] = "Negated" -> << "Negated", Unlift(e[2]) >>
      [] e[1] \in {"Sum", "Product"} -> << e[1], Unlift(e[2]), Unlift(e[3]) >>
      [] e[1] = "Scaled" -> << "Scaled", Unlift(e[2]), e[3][2] >>
      [] OTHER -> e

RECURSIVE AllLifted(_)
AllLifted(e) ==
    CASE e[1] = "Constant" -> e[2] = from_constant(e[2][2])
      [] e[1] = "Negated" -> AllLifted(e[2])
      [] e[1] \in {"Sum", "Product"} -> AllLifted(e[2]) /\ AllLifted(e[3])
      [] e[1] = "Scaled" -> AllLifted(e[2]) /\ e[3] = from_constant(e[3][2])
      [] OTHER -> TRUE

(* C19: from_expression returns a tree of the same shape: column nodes   *)
(* keep query index, column index and rotation, constants and scale      *)
(* factors are lifted by from_constant, selectors are carried unchanged. *)
FromExpressionPreservesShape ==
    fPc = "done" => (AllLifted(fRes) /\ Unlift(fRes) = fExpr)

FromExpressionWitness ==
    /\ fPc = "done"
    /\ fExpr[1] = "Scaled"
    /\ fExpr[2][1] = "Advice"
    /\ fExpr[2][2] = 1
    /\ fExpr[2][3] = 0
    /\ fExpr[2][4] = 1


(* The constraint-expression list in the stated order for one proof, a   *)
(* verifying key with one gate of one polynomial and no lookups: the gate *)
(* polynomial, then the permutation expressions of the proof.            *)
ExpectedConstraintList ==
    << << "gate", 0, 0, 0 >>, << "permutation", 0 >> >>

(* C21: queries builds the vanishing argument's constraint list: per      *)
(* proof every gate polynomial in index order, then that proof's          *)
(* permutation expressions, then each lookup's expressions.               *)
ConstraintListBuilt ==
    qhPc \in {"done", "panic"} => (qhPc = "done" /\ qhExprs = ExpectedConstraintList)

(* C22: l_0 = ls[0], l_last = ls[l] and l_blind = ls[1] + ... + ls[l-1]   *)
(* are computed and passed to the permutation and lookup expressions.    *)
LagrangeTermsComputed ==
    qhPc \in {"done", "panic"} =>
        /\ qhPc = "done"
        /\ qhLagrange = [ l_0 |-> << "ls", 0 >>,
                          l_last |-> << "ls", CommonL >>,
                          l_blind |-> << "sum", 1 .. (CommonL - 1) >> ]

(* C23: for each proof, the permutation evaluated state's evals list     *)
(* holds, for each permutation column in order, its current-rotation      *)
(* evaluation from that proof's advice evals, the shared fixed evals or   *)
(* that proof's instance evals; its sets are that proof's product sets,   *)
(* and every set and the record carry chunk_len = degree - 2.             *)
PermutationEvalsFromColumns ==
    pPc = "done" =>
        /\ Len(pRes) = Len(pAdv)
        /\ \A k \in 1 .. Len(pRes) :
              /\ Len(pRes[k].evals) = Len(pCols)
              /\ \A i \in 1 .. Len(pCols) :
                    LET t == pCols[i][1]
                        vals == CASE t = "Advice" -> pAdv[k]
                                  [] t = "Fixed" -> pFix
                                  [] t = "Instance" -> pInst[k]
                    IN \E q \in 1 .. Len(QueryListOf(t)) :
                          /\ QueryListOf(t)[q] = << pCols[i][2], 0 >>
                          /\ pRes[k].evals[i] = vals[q]
              /\ pRes[k].chunk_len = pDeg - 2
              /\ \A j \in 1 .. Len(pRes[k].sets) :
                    /\ pRes[k].sets[j].chunk_len = pDeg - 2
                    /\ pRes[k].sets[j].product_commitment[2] = k - 1

PermutationEvalsWitness ==
    /\ pPc = "done"
    /\ Len(pRes) = 2
    /\ Len(pCols) = 2
    /\ pDeg = 3
    /\ pCols[2][1] = "Advice"
    /\ pRes[1].evals /= pRes[2].evals

(* Instances an honest prover proves: every proof has the key's number of *)
(* instance columns and every column is within the blinding bound.        *)
HonestInstances(c) ==
    /\ \A k \in 1 .. c.np : Len(c.inst[k]) = NumInstanceColumns
    /\ \A k \in 1 .. c.np : \A j \in 1 .. Len(c.inst[k]) : c.inst[k][j] <= InstanceBound

(* C15: for a valid proof with any transcript bytes (in particular one   *)
(* with a single byte changed), verification ends in MalformedProof or in *)
(* a failing pairing check; it never ends otherwise.                     *)
TamperedProofRejected ==
    (tpc \in {"done", "failed"} /\ HonestInstances(cfg))
        => outcome \in {"MalformedProof", "pairing_rejected"}

(* C24: queries and batch_multi_open_proofs leave the verifier state      *)
(* unchanged and return their result, so calling queries again on the    *)
(* same state yields the same query list.                                 *)
QueriesPureAndReturn ==
    [][ /\ Queries => (qhPc' = "done" /\ UNCHANGED << rX, rA, xNext >>)
        /\ BatchMultiOpenProofs => (bPc' = "done" /\ UNCHANGED << bQueries, bU >>) ]_vars

====
